---- MODULE Spec2Model ----
(***************************************************************************)
(* A model of gif_braille_tui (src/src/main.rs): the dimension fitter      *)
(* compute_scaled_dims, the rasterizer rgba_to_braille_colored, the frame  *)
(* store built by load_and_convert_gif, the terminal lifecycle of main and *)
(* the playback loop run_app.                                              *)
(*                                                                         *)
(* Four specifications share the variables:                                *)
(*   SpecFit     compute_scaled_dims applied to bounded inputs             *)
(*   SpecRaster  rgba_to_braille_colored applied to bounded images         *)
(*   Spec        main: load, terminal set-up, run_app, terminal restore    *)
(*   FairSpec    Spec with the fairness of a running process and a clock   *)
(***************************************************************************)
EXTENDS Integers, Sequences, FiniteSets, TLC

VARIABLES
    \* ---- compute_scaled_dims ----
    orig_w, orig_h, max_w, max_h,   \* the four u32 arguments
    new_dims,                       \* the returned (new_w, new_h); <<>> before the call
    \* ---- rgba_to_braille_colored ----
    width, height,                  \* img.width(), img.height()
    row, col,                       \* the loop variables of the two outer loops
    block,                          \* the pixels img.get_pixel returned for the last cell
    span,                           \* the last Span pushed: [dots, glyph, fg]
    span_vec,                       \* number of spans pushed to the current row's span_vec
    lines,                          \* the returned Vec<Line>, each Line as its number of spans
    rpc,                            \* "cells" while the loops run, "returned" after
    \* ---- main / load_and_convert_gif / run_app ----
    pc,                             \* position of main (and of run_app's loop body)
    gif,                            \* the decoder's frames: [w, h, usable], usable[i] = from_raw succeeds on frame i
    term,                           \* crossterm::terminal::size(): <<cols, rows>>
    frames,                         \* out_frames / the frame store: sequence of [id, cols, rows]
    raw_mode, alt_screen, cursor,   \* the terminal's lifecycle state
    frame_index,                    \* run_app's frame_index
    elapsed,                        \* frame_start.elapsed(), in ms
    time_left,                      \* what is left of the Duration handed to event::poll, in ms
    events,                         \* the event source's queue of pending events
    drawn,                          \* id of the frame the last terminal.draw rendered (0: none)
    res,                            \* run_app's result: "none", "Ok", "Err"
    exit,                           \* how the process ended: "running", "usage", "empty", "Err", "Ok"
    reported,                       \* TRUE once eprintln!("Error: ...") printed run_app's error
    advances,                       \* history: number of frame advances, modulo the store length
    q_ahead,                        \* history: events queued ahead of the first 'q' when it arrived (-1: none yet)
    q_late,                         \* history: 1 when that 'q' arrived outside event::poll/read, else 0
    q_draws                         \* history: terminal.draw calls since that 'q' arrived

fitVars    == <<orig_w, orig_h, max_w, max_h, new_dims>>
rasterVars == <<width, height, row, col, block, span, span_vec, lines, rpc>>
mainVars   == <<pc, gif, term, frames, raw_mode, alt_screen, cursor,
                frame_index, elapsed, time_left, events, drawn,
                res, exit, reported, advances, q_ahead, q_late, q_draws>>
vars       == <<fitVars, rasterVars, mainVars>>

----------------------------------------------------------------------------
(* Bounds of the model *)

MaxDim == 12       \* largest image / budget dimension given to compute_scaled_dims
MaxWidth == 3      \* widest image given to rgba_to_braille_colored
MaxHeight == 5     \* tallest image given to rgba_to_braille_colored
MaxGifFrames == 2  \* most frames the decoder returns
MaxQueue == 2      \* most input events pending at once
TickMs == 32       \* ms the clock advances in one step

----------------------------------------------------------------------------
(* f32 arithmetic, as IEEE-754 binary32 computes it (round to nearest, ties   *)
(* to even). A positive f32 is [m, e] with value m * 2^e and                  *)
(* 2^23 <= m < 2^24.                                                          *)

RECURSIVE Pow2(_)
Pow2(n) == IF n = 0 THEN 1 ELSE 2 * Pow2(n - 1)

MantLo == Pow2(23)     \* f32 has a 24-bit significand
MantHi == Pow2(24)

\* Value-preserving: shift the significand up until it is normalised.
RECURSIVE F32Up(_, _)
F32Up(m, e) == IF m >= MantLo THEN [m |-> m, e |-> e] ELSE F32Up(2 * m, e - 1)

\* Number of low bits num has beyond 24.
RECURSIVE ExtraBits(_)
ExtraBits(num) == IF num < MantHi THEN 0 ELSE 1 + ExtraBits(num \div 2)

\* The f32 nearest to num * 2^e (num >= 1), ties to even.
F32Round(num, e) ==
    LET s    == ExtraBits(num)
        q    == num \div Pow2(s)
        r    == num % Pow2(s)
        half == IF s = 0 THEN 1 ELSE Pow2(s - 1)
        up   == IF s > 0 /\ (r > half \/ (r = half /\ q % 2 = 1)) THEN q + 1 ELSE q
    IN  IF up = MantHi THEN [m |-> MantLo, e |-> e + s + 1]
                       ELSE F32Up(up, e + s)

\* `n as f32` for a u32 n >= 1.
U32ToF32(n) == F32Round(n, 0)

\* The f32 1.0.
F32One == [m |-> MantLo, e |-> -23]

\* x < y on positive f32 values.
F32Less(x, y) == x.e < y.e \/ (x.e = y.e /\ x.m < y.m)

\* f32::min.
F32Min(x, y) == IF F32Less(y, x) THEN y ELSE x

\* Strip the trailing zero bits of a significand (value-preserving).
RECURSIVE OddPart(_)
OddPart(m) == IF m % 2 = 1 THEN m ELSE OddPart(m \div 2)

RECURSIVE TrailingZeros(_)
TrailingZeros(m) == IF m % 2 = 1 THEN 0 ELSE 1 + TrailingZeros(m \div 2)

\* Smallest k with a * 2^k >= b * 2^23, i.e. with a 24-bit quotient.
RECURSIVE QuotShift(_, _)
QuotShift(a, b) == IF a >= b * MantLo THEN 0 ELSE 1 + QuotShift(2 * a, b)

\* x / y, correctly rounded. The division is done on the odd parts of the
\* significands: a / b with a 24-bit quotient q, the remainder deciding the
\* rounding.
F32Div(x, y) ==
    LET a    == OddPart(x.m)
        b    == OddPart(y.m)
        ea   == x.e + TrailingZeros(x.m)
        eb   == y.e + TrailingZeros(y.m)
        k    == QuotShift(a, b)
        n    == a * Pow2(k)
        q    == n \div b
        r    == n % b
        up   == IF 2 * r > b \/ (2 * r = b /\ q % 2 = 1) THEN q + 1 ELSE q
    IN  F32Round(up, ea - eb - k)

\* x * y, correctly rounded; the product of the odd parts is exact.
F32Mul(x, y) ==
    F32Round(OddPart(x.m) * OddPart(y.m),
             x.e + TrailingZeros(x.m) + y.e + TrailingZeros(y.m))

\* f32::round (half away from zero) followed by .max(1.0) and `as u32`.
F32RoundMax1ToU32(x) ==
    LET rounded == IF x.e >= 0 THEN x.m * Pow2(x.e)
                   ELSE IF -x.e > 25 THEN 0
                   ELSE (x.m + Pow2(-x.e - 1)) \div Pow2(-x.e)
    IN  IF rounded < 1 THEN 1 ELSE rounded

----------------------------------------------------------------------------
(* compute_scaled_dims *)

\* compute_scaled_dims without `scale.min(1.0)`.
compute_scaled_dims_upscaling(ow, oh, mw, mh) ==
    IF mw = 0 \/ mh = 0 \/ ow = 0 \/ oh = 0 THEN <<0, 0>>
    ELSE LET scale == F32Min(F32Div(U32ToF32(mw), U32ToF32(ow)),
                             F32Div(U32ToF32(mh), U32ToF32(oh)))
         IN  <<F32RoundMax1ToU32(F32Mul(U32ToF32(ow), scale)),
               F32RoundMax1ToU32(F32Mul(U32ToF32(oh), scale))>>

\* compute_scaled_dims fitting the width alone (scale_h forgotten).
compute_scaled_dims_width_only(ow, oh, mw, mh) ==
    IF mw = 0 \/ mh = 0 \/ ow = 0 \/ oh = 0 THEN <<0, 0>>
    ELSE LET scale == F32Min(F32Div(U32ToF32(mw), U32ToF32(ow)), F32One)
         IN  <<F32RoundMax1ToU32(F32Mul(U32ToF32(ow), scale)),
               F32RoundMax1ToU32(F32Mul(U32ToF32(oh), scale))>>

compute_scaled_dims(ow, oh, mw, mh) ==
    IF mw = 0 \/ mh = 0 \/ ow = 0 \/ oh = 0 THEN <<0, 0>>
    ELSE LET orig_w_f == U32ToF32(ow)
             orig_h_f == U32ToF32(oh)
             max_w_f  == U32ToF32(mw)
             max_h_f  == U32ToF32(mh)
             scale_w  == F32Div(max_w_f, orig_w_f)
             scale_h  == F32Div(max_h_f, orig_h_f)
             scale0   == F32Min(scale_w, scale_h)
             scale    == F32Min(scale0, F32One)
         IN  <<F32RoundMax1ToU32(F32Mul(orig_w_f, scale)),
               F32RoundMax1ToU32(F32Mul(orig_h_f, scale))>>



----------------------------------------------------------------------------
(* rgba_to_braille_colored *)

BrailleBase    == 10240   \* 0x2800, the first code point of the braille block
AlphaThreshold == 50      \* a > 50
CellW          == 2       \* each braille cell is 2 px wide ...
CellH          == 4       \* ... and 4 px tall

NoSpan == [dots |-> -1, glyph |-> -1, fg |-> <<>>]

\* The pixels the model draws images from: Rgba([r, g, b, a]).
\*   opaque white; bright but alpha exactly at the threshold; opaque with
\*   luminance 19.98 (just under the threshold); alpha 51 with luminance 20.2.
Palette ==
    { [r |-> 255, g |-> 255, b |-> 255, a |-> 255],
      [r |-> 200, g |-> 100, b |-> 7,   a |-> 50],
      [r |-> 94,  g |-> 0,   b |-> 0,   a |-> 255],
      [r |-> 95,  g |-> 0,   b |-> 0,   a |-> 51] }

\* (sub_col, sub_row) => braille bit: the match of lines 182-192.
bit_index(sub_col, sub_row) ==
    CASE sub_col = 0 /\ sub_row = 0 -> 0
      [] sub_col = 0 /\ sub_row = 1 -> 1
      [] sub_col = 0 /\ sub_row = 2 -> 2
      [] sub_col = 0 /\ sub_row = 3 -> 3
      [] sub_col = 1 /\ sub_row = 0 -> 4
      [] sub_col = 1 /\ sub_row = 1 -> 5
      [] sub_col = 1 /\ sub_row = 2 -> 6
      [] sub_col = 1 /\ sub_row = 3 -> 7
      [] OTHER -> 0

\* The dot each arm of that match names in its comment.
comment_dot(sub_col, sub_row) ==
    CASE sub_col = 0 /\ sub_row = 0 -> 1
      [] sub_col = 0 /\ sub_row = 1 -> 2
      [] sub_col = 0 /\ sub_row = 2 -> 3
      [] sub_col = 0 /\ sub_row = 3 -> 7
      [] sub_col = 1 /\ sub_row = 0 -> 4
      [] sub_col = 1 /\ sub_row = 1 -> 5
      [] sub_col = 1 /\ sub_row = 2 -> 6
      [] sub_col = 1 /\ sub_row = 3 -> 8

\* lum > 20.0 with lum = 0.2126*r + 0.7152*g + 0.0722*b in f32. The f32
\* comparison and the exact one below agree on every (r, g, b) in 0..255: the
\* f32 rounding error is below 0.0001 and the exact luminance is never closer
\* to 20.0 than 0.0002 unless it equals 20.0, where the f32 sum is 20.0 too.
lum_above(p) == 2126 * p.r + 7152 * p.g + 722 * p.b > 200000

\* dot_lit with `a >= 50`.
dot_lit_ge(p) == p.a >= AlphaThreshold /\ lum_above(p)

\* if a > 50 && lum > 20.0
dot_lit(p) == p.a > AlphaThreshold /\ lum_above(p)

\* bit n of an 8-bit mask
BitSet(mask, n) == (mask \div Pow2(n)) % 2 = 1

\* dots |= 1 << bit
OrBit(mask, n) == IF BitSet(mask, n) THEN mask ELSE (mask + Pow2(n)) % 256

\* The sub-pixel positions in the order the two inner loops visit them:
\* for sub_row in 0..4 { for sub_col in 0..2 { ... } }
SubOrder ==
    [i \in 1..(CellH * CellW) |-> [sub_row |-> (i - 1) \div CellW, sub_col |-> (i - 1) % CellW]]

\* px_x < width && px_y < height
in_bounds(c, r, sub) == c * CellW + sub.sub_col < width /\ r * CellH + sub.sub_row < height

\* The sub-pixel positions of cell (c, r) that get_pixel is called for.
InBlock(c, r) == {i \in DOMAIN SubOrder : in_bounds(c, r, SubOrder[i])}

\* One pass of the inner loops' body for sub-pixel i of the block px, on the
\* accumulators acc = [dots, r_sum, g_sum, b_sum, count].
SubPixel(acc, px, i) ==
    IF i \in DOMAIN px
    THEN LET p   == px[i]
             bit == bit_index(SubOrder[i].sub_col, SubOrder[i].sub_row)
         IN  [dots  |-> IF dot_lit(p) THEN OrBit(acc.dots, bit) ELSE acc.dots,
              r_sum |-> acc.r_sum + p.r,
              g_sum |-> acc.g_sum + p.g,
              b_sum |-> acc.b_sum + p.b,
              count |-> acc.count + 1]
    ELSE acc

RECURSIVE Accumulate(_, _, _)
Accumulate(acc, px, i) ==
    IF i > CellH * CellW THEN acc
    ELSE Accumulate(SubPixel(acc, px, i), px, i + 1)

\* Average dividing by the size of a full block instead of the sample count.
Average_full_block(acc) ==
    <<(acc.r_sum \div (CellH * CellW)) % 256,
      (acc.g_sum \div (CellH * CellW)) % 256,
      (acc.b_sum \div (CellH * CellW)) % 256>>

\* (r_sum / count) as u8, ... or (0, 0, 0) when count = 0
Average(acc) ==
    IF acc.count > 0
    THEN <<(acc.r_sum \div acc.count) % 256,
           (acc.g_sum \div acc.count) % 256,
           (acc.b_sum \div acc.count) % 256>>
    ELSE <<0, 0, 0>>

\* The Span built for a block: glyph 0x2800 + dots, fg the averaged colour.
MakeSpan(px) ==
    LET acc == Accumulate([dots |-> 0, r_sum |-> 0, g_sum |-> 0, b_sum |-> 0, count |-> 0], px, 1)
    IN  [dots |-> acc.dots, glyph |-> BrailleBase + acc.dots, fg |-> Average(acc)]

cell_cols == (width + 1) \div 2
cell_rows == (height + 3) \div 4

----------------------------------------------------------------------------
(* Values of the variables a specification does not use *)

IdleFit ==
    /\ orig_w = 0 /\ orig_h = 0 /\ max_w = 0 /\ max_h = 0
    /\ new_dims = <<>>

----------------------------------------------------------------------------
(* SpecFit: compute_scaled_dims called once on every input within the bound *)

InitFit ==
    /\ orig_w \in 0..MaxDim
    /\ orig_h \in 0..MaxDim
    /\ max_w \in 0..MaxDim
    /\ max_h \in 0..MaxDim
    /\ new_dims = <<>>

FitCall ==
    /\ new_dims = <<>>
    /\ new_dims' = compute_scaled_dims(orig_w, orig_h, max_w, max_h)
    /\ UNCHANGED <<orig_w, orig_h, max_w, max_h>>


----------------------------------------------------------------------------
(* SpecRaster: rgba_to_braille_colored run on every image within the bounds. *)
(* Each pixel is read once, so the image's pixels are chosen as they are     *)
(* read, block by block.                                                      *)

IdleRaster ==
    /\ width = 1 /\ height = 1 /\ row = 0 /\ col = 0
    /\ block = <<>> /\ span = NoSpan /\ span_vec = 0 /\ lines = <<>> /\ rpc = "idle"

InitRaster ==
    /\ width \in 1..MaxWidth
    /\ height \in 1..MaxHeight
    /\ row = 0 /\ col = 0
    /\ block = <<>> /\ span = NoSpan
    /\ span_vec = 0 /\ lines = <<>>
    /\ rpc = "cells"

\* The body of `for col in 0..cell_cols` up to the Span: the block's pixels
\* are read and the span is built.
RasterCell ==
    /\ rpc = "cells" /\ row < cell_rows /\ col < cell_cols
    /\ span = NoSpan
    /\ \E px \in [InBlock(col, row) -> Palette] :
          /\ block' = px
          /\ span' = MakeSpan(px)
    /\ UNCHANGED <<width, height, row, col, span_vec, lines, rpc>>

\* span_vec.push(span): the span moves into the row, the loop goes on.
RasterPush ==
    /\ rpc = "cells" /\ span # NoSpan
    /\ span_vec' = span_vec + 1
    /\ col' = col + 1
    /\ block' = <<>> /\ span' = NoSpan
    /\ UNCHANGED <<width, height, row, lines, rpc>>

\* The end of one iteration of `for row in 0..cell_rows`: lines.push(...).
RasterEndRow ==
    /\ rpc = "cells" /\ row < cell_rows /\ col = cell_cols
    /\ lines' = Append(lines, span_vec)
    /\ span_vec' = 0
    /\ row' = row + 1
    /\ col' = 0
    /\ UNCHANGED <<width, height, block, span, rpc>>

\* `lines` is returned.
RasterReturn ==
    /\ rpc = "cells" /\ row = cell_rows
    /\ rpc' = "returned"
    /\ UNCHANGED <<width, height, row, col, block, span, span_vec, lines>>

----------------------------------------------------------------------------
(* main, load_and_convert_gif and run_app *)

FrameDelay == 96     \* Duration::from_millis(96)

NoGif == [w |-> 0, h |-> 0, usable |-> <<>>]

\* Buffer sizes of the decoded frames (collect_frames gives every frame the
\* size of the GIF's screen) and terminal sizes, <<cols, rows>>. <<2, 1>>
\* leaves no room inside the border, <<3, 3>> forces downscaling, <<80, 24>>
\* holds the images unscaled.
GifDims   == { <<4, 8>>, <<9, 6>> }
TermSizes == { <<2, 1>>, <<3, 3>>, <<80, 24>> }

\* The input events the event source can deliver: the key 'q', another key,
\* and a non-key event (mouse capture is enabled, so mouse events arrive).
EventKinds == {"q", "k", "m"}

\* u32::saturating_sub and Duration::saturating_sub
SatSub(a, b) == IF a > b THEN a - b ELSE 0

\* The body of `for frame in frames_iter` for decoder frame i: the fitted
\* size, the resized image's size (1x1 when the fit is degenerate) and the
\* size of the braille grid rgba_to_braille_colored returns for it.
ConvertFrame(g, t, i) ==
    LET max_braille_cols == SatSub(t[1], 2)
        max_braille_rows == SatSub(t[2], 2)
        max_width_px     == max_braille_cols * 2
        max_height_px    == max_braille_rows * 4
        fitted  == compute_scaled_dims(g.w, g.h, max_width_px, max_height_px)
        resized == IF fitted[1] > 0 /\ fitted[2] > 0 THEN fitted ELSE <<1, 1>>
    IN  [id |-> i, cols |-> (resized[1] + 1) \div 2, rows |-> (resized[2] + 3) \div 4]

\* out_frames after the loop has taken decoder frames i..: a frame whose
\* from_raw fails is skipped (`continue`), every other one is pushed.
RECURSIVE ConvertFrom(_, _, _)
ConvertFrom(g, t, i) ==
    IF i > Len(g.usable) THEN <<>>
    ELSE IF g.usable[i] THEN <<ConvertFrame(g, t, i)>> \o ConvertFrom(g, t, i + 1)
    ELSE ConvertFrom(g, t, i + 1)

load_and_convert_gif(g, t) == ConvertFrom(g, t, 1)

\* The emptiness check left out.
StoreIsEmpty_never(fs) == FALSE

\* frames.is_empty()
StoreIsEmpty(fs) == Len(fs) = 0

\* The quit test on the wrong key.
IsQuitKey_wrong_key(e) == e = "k"

\* key.code == KeyCode::Char('q') on an Event::Key
IsQuitKey(e) == e = "q"

\* The advance without the wrap.
NextIndex_no_wrap(i, n) == i + 1

\* (frame_index + 1) % frames.len()
NextIndex(i, n) == (i + 1) % n

\* frame_delay.saturating_sub(elapsed)
TimeLeft(e) == SatSub(FrameDelay, e)

\* The advance check skipped in an iteration that read an event.
AfterEvent_skip_advance == "draw"

\* Where the loop body continues after an event that is not the quit key:
\* it falls through to step 3, the advance check.
AfterEvent == "advance"

\* The process's exit status.
ExitCode(how) == IF how = "Ok" THEN 0 ELSE 1

RunPcs == {"draw", "poll", "read", "advance"}

IdleMain ==
    /\ pc = "idle" /\ gif = NoGif /\ term = <<0, 0>> /\ frames = <<>>
    /\ raw_mode = FALSE /\ alt_screen = FALSE /\ cursor = "shown"
    /\ frame_index = 0 /\ elapsed = 0 /\ time_left = 0 /\ events = <<>>
    /\ drawn = 0 /\ res = "none" /\ exit = "running" /\ reported = FALSE
    /\ advances = 0 /\ q_ahead = -1 /\ q_late = 0 /\ q_draws = 0

InitMain ==
    /\ pc = "args" /\ gif = NoGif /\ term = <<0, 0>> /\ frames = <<>>
    /\ raw_mode = FALSE /\ alt_screen = FALSE /\ cursor = "shown"
    /\ frame_index = 0 /\ elapsed = 0 /\ time_left = 0 /\ events = <<>>
    /\ drawn = 0 /\ res = "none" /\ exit = "running" /\ reported = FALSE
    /\ advances = 0 /\ q_ahead = -1 /\ q_late = 0 /\ q_draws = 0

termVars == <<raw_mode, alt_screen, cursor>>
loadVars == <<gif, term, frames>>
playVars == <<frame_index, elapsed, time_left, events, drawn, advances>>
histVars == <<q_ahead, q_late, q_draws>>

\* The process ends: std::process::exit(1), or main returns Ok or Err.
Exit(how) == pc' = "done" /\ exit' = how

\* 1) args.next(): the path, or the usage message and exit(1).
Args ==
    /\ pc = "args"
    /\ \/ pc' = "load" /\ exit' = exit
       \/ Exit("usage")
    /\ UNCHANGED <<loadVars, termVars, playVars, histVars, res, reported>>

\* 2) load_and_convert_gif(&gif_path)?: File::open, GifDecoder::new,
\* collect_frames or terminal::size fails and main returns the error, or the
\* store is built from the decoded frames.
Load ==
    /\ pc = "load"
    /\ \/ /\ Exit("Err")
          /\ UNCHANGED loadVars
       \/ \E d \in GifDims, n \in 0..MaxGifFrames, t \in TermSizes :
          \E u \in [1..n -> BOOLEAN] :
             /\ gif' = [w |-> d[1], h |-> d[2], usable |-> u]
             /\ term' = t
             /\ frames' = load_and_convert_gif(gif', t)
             /\ pc' = "check_empty" /\ exit' = exit
    /\ UNCHANGED <<termVars, playVars, histVars, res, reported>>

\* if frames.is_empty() { eprintln!(...); exit(1) }
CheckEmpty ==
    /\ pc = "check_empty"
    /\ IF StoreIsEmpty(frames) THEN Exit("empty")
       ELSE pc' = "enable_raw" /\ exit' = exit
    /\ UNCHANGED <<loadVars, termVars, playVars, histVars, res, reported>>

\* 3) enable_raw_mode()?
EnableRaw ==
    /\ pc = "enable_raw"
    /\ \/ raw_mode' = TRUE /\ pc' = "enter_alt" /\ exit' = exit
       \/ raw_mode' = raw_mode /\ Exit("Err")
    /\ UNCHANGED <<loadVars, alt_screen, cursor, playVars, histVars, res, reported>>

\* execute!(stdout, EnterAlternateScreen, EnableMouseCapture)?
EnterAlt ==
    /\ pc = "enter_alt"
    /\ \/ alt_screen' = TRUE /\ pc' = "terminal_new" /\ exit' = exit
       \/ alt_screen' = alt_screen /\ Exit("Err")
    /\ UNCHANGED <<loadVars, raw_mode, cursor, playVars, histVars, res, reported>>

\* Terminal::new(backend)?, then run_app is entered: frame_index = 0,
\* frame_start = Instant::now().
TerminalNew ==
    /\ pc = "terminal_new"
    /\ \/ /\ pc' = "draw" /\ exit' = exit
          /\ frame_index' = 0 /\ elapsed' = 0
       \/ /\ Exit("Err")
          /\ UNCHANGED <<frame_index, elapsed>>
    /\ UNCHANGED <<loadVars, termVars, time_left, events, drawn, advances,
                   histVars, res, reported>>

\* run_app returns: its result is kept in `res`, its locals frame_index,
\* frame_start and time_left are gone, and main goes on to step 5.
Return(r) ==
    /\ res' = r
    /\ pc' = "disable_raw"
    /\ frame_index' = 0 /\ elapsed' = 0 /\ time_left' = 0

\* The history of the first 'q': one more terminal.draw call since it arrived.
CountDraw == q_draws' = (IF q_ahead >= 0 THEN q_draws + 1 ELSE q_draws)

\* 1) terminal.draw(...)?: renders frames[frame_index] (and hides the
\* cursor), or fails; then 2) time_left = frame_delay - elapsed, saturating.
Draw ==
    /\ pc = "draw"
    /\ CountDraw
    /\ \/ /\ drawn' = frames[frame_index + 1].id
          /\ cursor' = "hidden"
          /\ time_left' = TimeLeft(elapsed)
          /\ pc' = "poll" /\ res' = res
          /\ UNCHANGED <<frame_index, elapsed>>
       \/ /\ Return("Err")
          /\ UNCHANGED <<drawn, cursor>>
    /\ UNCHANGED <<loadVars, raw_mode, alt_screen, events,
                   advances, q_ahead, q_late, exit, reported>>

\* event::poll(time_left)?: true as soon as an event is pending, false once
\* time_left has passed without one, or an error.
Poll ==
    /\ pc = "poll"
    /\ \/ /\ events # <<>> /\ pc' = "read" /\ res' = res
          /\ UNCHANGED <<frame_index, elapsed, time_left>>
       \/ /\ events = <<>> /\ time_left = 0 /\ pc' = "advance" /\ res' = res
          /\ UNCHANGED <<frame_index, elapsed, time_left>>
       \/ Return("Err")
    /\ UNCHANGED <<loadVars, termVars, events, drawn, advances, histVars,
                   exit, reported>>

\* event::read()?: takes the first pending event; the key 'q' returns Ok(()),
\* any other event is dropped.
Read ==
    /\ pc = "read"
    /\ \/ /\ events' = Tail(events)
          /\ IF IsQuitKey(Head(events)) THEN Return("Ok")
             ELSE /\ pc' = AfterEvent /\ res' = res
                  /\ UNCHANGED <<frame_index, elapsed, time_left>>
       \/ /\ Return("Err")
          /\ events' = events
    /\ UNCHANGED <<loadVars, termVars, drawn, advances, histVars, exit, reported>>

\* 3) if frame_start.elapsed() >= frame_delay: next frame, timer reset.
Advance ==
    /\ pc = "advance"
    /\ IF elapsed >= FrameDelay
       THEN /\ frame_index' = NextIndex(frame_index, Len(frames))
            /\ elapsed' = 0
            /\ advances' = (advances + 1) % Len(frames)
       ELSE UNCHANGED <<frame_index, elapsed, advances>>
    /\ pc' = "draw"
    /\ UNCHANGED <<loadVars, termVars, time_left, events, drawn, histVars,
                   res, exit, reported>>

\* 5) disable_raw_mode()?
DisableRaw ==
    /\ pc = "disable_raw"
    /\ \/ raw_mode' = FALSE /\ pc' = "leave_alt" /\ exit' = exit
       \/ raw_mode' = raw_mode /\ Exit("Err")
    /\ UNCHANGED <<loadVars, alt_screen, cursor, playVars, histVars, res, reported>>

\* execute!(terminal.backend_mut(), LeaveAlternateScreen, DisableMouseCapture)?
LeaveAlt ==
    /\ pc = "leave_alt"
    /\ \/ alt_screen' = FALSE /\ pc' = "show_cursor" /\ exit' = exit
       \/ alt_screen' = alt_screen /\ Exit("Err")
    /\ UNCHANGED <<loadVars, raw_mode, cursor, playVars, histVars, res, reported>>

\* terminal.show_cursor()?
ShowCursor ==
    /\ pc = "show_cursor"
    /\ \/ cursor' = "shown" /\ pc' = "report" /\ exit' = exit
       \/ cursor' = cursor /\ Exit("Err")
    /\ UNCHANGED <<loadVars, raw_mode, alt_screen, playVars, histVars, res, reported>>

\* if let Err(err) = res { eprintln!("Error: {err:?}") }; Ok(())
Report ==
    /\ pc = "report"
    /\ reported' = (res = "Err")
    /\ Exit("Ok")
    /\ UNCHANGED <<loadVars, termVars, playVars, histVars, res>>

\* The environment: an input event arrives at the event source.
Press ==
    /\ pc \in RunPcs
    /\ Len(events) < MaxQueue
    /\ \E e \in EventKinds :
          /\ events' = Append(events, e)
          /\ IF e = "q" /\ q_ahead = -1
             THEN /\ q_ahead' = Len(events)
                  /\ q_late' = (IF pc \in {"poll", "read"} THEN 0 ELSE 1)
             ELSE UNCHANGED <<q_ahead, q_late>>
    /\ UNCHANGED <<pc, loadVars, termVars, frame_index, elapsed, time_left, drawn,
                   advances, q_draws, res, exit, reported>>

\* The environment: the clock advances by TickMs; a pending event::poll has
\* that much less left to wait.
Tick ==
    /\ pc \in RunPcs
    /\ elapsed < FrameDelay + TickMs
    /\ elapsed' = elapsed + TickMs
    /\ time_left' = (IF pc = "poll" THEN SatSub(time_left, TickMs) ELSE time_left)
    /\ UNCHANGED <<pc, loadVars, termVars, frame_index, events, drawn, advances,
                   histVars, res, exit, reported>>

MainStep ==
    \/ Args \/ Load \/ CheckEmpty \/ EnableRaw \/ EnterAlt \/ TerminalNew
    \/ Draw \/ Poll \/ Read \/ Advance
    \/ DisableRaw \/ LeaveAlt \/ ShowCursor \/ Report

----------------------------------------------------------------------------
(* The specifications *)

Init == IdleFit /\ IdleRaster /\ InitMain

Next ==
    \/ Args /\ UNCHANGED <<fitVars, rasterVars>>
    \/ Load /\ UNCHANGED <<fitVars, rasterVars>>
    \/ CheckEmpty /\ UNCHANGED <<fitVars, rasterVars>>
    \/ EnableRaw /\ UNCHANGED <<fitVars, rasterVars>>
    \/ EnterAlt /\ UNCHANGED <<fitVars, rasterVars>>
    \/ TerminalNew /\ UNCHANGED <<fitVars, rasterVars>>
    \/ Draw /\ UNCHANGED <<fitVars, rasterVars>>
    \/ Poll /\ UNCHANGED <<fitVars, rasterVars>>
    \/ Read /\ UNCHANGED <<fitVars, rasterVars>>
    \/ Advance /\ UNCHANGED <<fitVars, rasterVars>>
    \/ DisableRaw /\ UNCHANGED <<fitVars, rasterVars>>
    \/ LeaveAlt /\ UNCHANGED <<fitVars, rasterVars>>
    \/ ShowCursor /\ UNCHANGED <<fitVars, rasterVars>>
    \/ Report /\ UNCHANGED <<fitVars, rasterVars>>
    \/ Press /\ UNCHANGED <<fitVars, rasterVars>>
    \/ Tick /\ UNCHANGED <<fitVars, rasterVars>>

Spec == Init /\ [][Next]_vars

\* The process keeps running (every step of main and run_app that can be
\* taken is taken) and time passes.
FairSpec ==
    /\ Spec
    /\ WF_vars(MainStep /\ UNCHANGED <<fitVars, rasterVars>>)
    /\ WF_vars(Tick /\ UNCHANGED <<fitVars, rasterVars>>)

InitFitSpec == InitFit /\ IdleRaster /\ IdleMain

NextFit == FitCall /\ UNCHANGED <<rasterVars, mainVars>>

SpecFit == InitFitSpec /\ [][NextFit]_vars

InitRasterSpec == IdleFit /\ InitRaster /\ IdleMain

NextRaster ==
    \/ RasterCell /\ UNCHANGED <<fitVars, mainVars>>
    \/ RasterPush /\ UNCHANGED <<fitVars, mainVars>>
    \/ RasterEndRow /\ UNCHANGED <<fitVars, mainVars>>
    \/ RasterReturn /\ UNCHANGED <<fitVars, mainVars>>

SpecRaster == InitRasterSpec /\ [][NextRaster]_vars

----------------------------------------------------------------------------
(* The claims *)

\* ceil(a / b)
Ceil(a, b) == IF a % b = 0 THEN a \div b ELSE (a \div b) + 1

\* Sum of f over the finite set S.
RECURSIVE SumOver(_, _)
SumOver(S, f) ==
    IF S = {} THEN 0
    ELSE LET x == CHOOSE y \in S : TRUE IN f[x] + SumOver(S \ {x}, f)

\* Sub-pixel i of the cell just built lies inside the image.
Inside(i) ==
    /\ CellW * col + SubOrder[i].sub_col < width
    /\ CellH * row + SubOrder[i].sub_row < height

InsideSet == {i \in DOMAIN SubOrder : Inside(i)}

\* Sub-pixel i is inside the image, its alpha is > 50 and its luminance > 20.0.
Lit(i) ==
    /\ Inside(i)
    /\ block[i].a > 50
    /\ 2126 * block[i].r + 7152 * block[i].g + 722 * block[i].b > 200000

\* C1: in every cell rgba_to_braille_colored builds, bit 4*sub_col + sub_row
\* of the dot mask is set iff the pixel at (2*col + sub_col, 4*row + sub_row)
\* is inside the image, has alpha > 50 and luminance > 20.0; the glyph is
\* 0x2800 + mask; a fully white opaque 2x4 block gives mask 255 and a block
\* whose pixels all have alpha <= 50 gives mask 0.
C1_DotMask ==
    span # NoSpan =>
        /\ \A i \in DOMAIN SubOrder :
              BitSet(span.dots, 4 * SubOrder[i].sub_col + SubOrder[i].sub_row) <=> Lit(i)
        /\ span.dots \in 0..255
        /\ span.glyph = 10240 + span.dots
        /\ ( /\ Cardinality(InsideSet) = 8
             /\ \A i \in InsideSet : block[i] = [r |-> 255, g |-> 255, b |-> 255, a |-> 255] )
           => span.dots = 255
        /\ (\A i \in InsideSet : block[i].a <= 50) => span.dots = 0

\* A full 2x4 block with a lit pixel, a bright pixel of alpha 50 and an
\* opaque pixel too dark to light its dot.
C1_Witness ==
    /\ span # NoSpan
    /\ Cardinality(InsideSet) = 8
    /\ \E i, j, k \in InsideSet :
          /\ Lit(i)
          /\ block[j].a = 50 /\ block[j].r = 200
          /\ block[k].a = 255 /\ block[k].r = 94

\* C2: for a w x h image (w, h >= 1) rgba_to_braille_colored returns
\* ceil(h/4) rows of ceil(w/2) cells; each cell's colour is the truncated
\* per-channel mean over exactly the in-bounds pixels of its block (1 to 8),
\* lit or not; a position outside the image contributes no bit and no sample.
C2_GridAndColour ==
    /\ rpc = "returned" =>
          /\ Len(lines) = Ceil(height, 4)
          /\ \A i \in 1..Len(lines) : lines[i] = Ceil(width, 2)
    /\ span # NoSpan =>
          LET n == Cardinality(InsideSet)
          IN  /\ DOMAIN block = InsideSet
              /\ n \in 1..8
              /\ span.fg = << SumOver(InsideSet, [i \in InsideSet |-> block[i].r]) \div n,
                              SumOver(InsideSet, [i \in InsideSet |-> block[i].g]) \div n,
                              SumOver(InsideSet, [i \in InsideSet |-> block[i].b]) \div n >>
              /\ \A i \in DOMAIN SubOrder \ InsideSet :
                    ~BitSet(span.dots, 4 * SubOrder[i].sub_col + SubOrder[i].sub_row)

\* The one-pixel block at the bottom right of a 3 x 5 image, built after a
\* first row of two cells was pushed, its colour that of its single pixel.
C2_Witness ==
    /\ width = 3 /\ height = 5
    /\ lines = <<2>> /\ col = 1 /\ row = 1
    /\ span # NoSpan
    /\ Cardinality(InsideSet) = 1
    /\ span.fg = <<200, 100, 7>>

\* C3: on positive arguments compute_scaled_dims returns 1 <= new_w <= max_w
\* and 1 <= new_h <= max_h; with any argument 0 it returns (0, 0).
C3_FitsBudget ==
    new_dims # <<>> =>
        IF orig_w > 0 /\ orig_h > 0 /\ max_w > 0 /\ max_h > 0
        THEN /\ 1 <= new_dims[1] /\ new_dims[1] <= max_w
             /\ 1 <= new_dims[2] /\ new_dims[2] <= max_h
        ELSE new_dims = <<0, 0>>

\* A 9 x 7 image scaled down into a 4 x 5 budget: the width fills the budget.
C3_Witness ==
    /\ orig_w = 9 /\ orig_h = 7 /\ max_w = 4 /\ max_h = 5
    /\ new_dims = <<4, 3>>

\* C4: when the image fits the budget (orig_w <= max_w and orig_h <= max_h)
\* compute_scaled_dims returns (orig_w, orig_h); on positive arguments the
\* result never exceeds the source.
C4_NoUpscaling ==
    (new_dims # <<>> /\ orig_w > 0 /\ orig_h > 0 /\ max_w > 0 /\ max_h > 0) =>
        /\ (orig_w <= max_w /\ orig_h <= max_h) => new_dims = <<orig_w, orig_h>>
        /\ new_dims[1] <= orig_w
        /\ new_dims[2] <= orig_h

\* A 3 x 2 image in a 9 x 8 budget comes back 3 x 2.
C4_Witness ==
    /\ orig_w = 3 /\ orig_h = 2 /\ max_w = 9 /\ max_h = 8
    /\ new_dims = <<3, 2>>

\* C5: playback starts at frame index 0; an advance check made once the
\* interval has elapsed moves the index by one modulo N and resets the timer
\* (so the index is the number of advances modulo N, 0 again after N of
\* them), any other step leaves the index alone; 0 <= index < N throughout
\* and each render draws the frame at the current index.
C5_Playback ==
    /\ [](pc \in RunPcs =>
            /\ frame_index \in 0..(Len(frames) - 1)
            /\ frame_index = advances)
    /\ [][ /\ (pc = "terminal_new" /\ pc' = "draw") => frame_index' = 0 /\ elapsed' = 0
           /\ (pc = "advance" /\ pc' = "draw" /\ elapsed >= 96) =>
                 /\ frame_index' = (frame_index + 1) % Len(frames)
                 /\ elapsed' = 0
           /\ (pc = "advance" /\ pc' = "draw" /\ elapsed < 96) =>
                 /\ frame_index' = frame_index
                 /\ elapsed' = elapsed
           /\ (pc \in RunPcs /\ pc # "advance" /\ pc' \in RunPcs) => frame_index' = frame_index
           /\ (pc = "draw" /\ pc' = "poll") => drawn' = frames[frame_index + 1].id
         ]_vars

\* The last frame of a two-frame store is on screen and the interval has
\* elapsed: the next advance wraps to index 0.
C5_Witness ==
    /\ pc = "advance" /\ Len(frames) = 2
    /\ frame_index = 1 /\ drawn = frames[2].id
    /\ elapsed >= 96

\* C6 as claimed: once 'q' has arrived at the event source while run_app is
\* in event::poll / event::read, no terminal.draw is called before run_app
\* returns, whatever other events are pending.
C6_NoDrawAfterQuitKey ==
    (q_ahead >= 0 /\ q_late = 0) => q_draws = 0

\* C6 amended: run_app reads one event per iteration, so 'q' is read after
\* the events queued ahead of it, with exactly one terminal.draw per such
\* event (and one more if 'q' arrived after the iteration's poll had
\* returned); once 'q' is read run_app returns Ok without another draw.
C6_OneDrawPerEventAhead ==
    /\ q_ahead >= 0 => q_draws <= q_ahead + q_late
    /\ res = "Ok" => (q_ahead >= 0 /\ q_draws = q_ahead + q_late)
    /\ (q_ahead = 0 /\ q_late = 0) => q_draws = 0

\* 'q' arrived during the wait behind one pending event; run_app returned Ok
\* after one more draw.
C6_Witness ==
    /\ res = "Ok" /\ q_ahead = 1 /\ q_late = 0 /\ q_draws = 1

\* C7: the frame store is no longer than the decoder's frame list and keeps
\* its order; the terminal set-up and run_app are never reached with an
\* empty store: an empty store ends the process with a non-zero exit
\* before raw mode or the alternate screen is entered.
C7_Store ==
    /\ Len(frames) <= Len(gif.usable)
    /\ \A i \in 1..Len(frames) :
          /\ frames[i].id \in 1..Len(gif.usable)
          /\ gif.usable[frames[i].id]
    /\ \A i, j \in 1..Len(frames) : i < j => frames[i].id < frames[j].id
    /\ (pc \in RunPcs \cup {"enable_raw", "enter_alt", "terminal_new"} \/ raw_mode \/ alt_screen)
          => Len(frames) >= 1
    /\ (pc = "done" /\ term # <<0, 0>> /\ Len(frames) = 0) =>
          /\ exit = "empty" /\ ExitCode(exit) # 0
          /\ ~raw_mode /\ ~alt_screen /\ res = "none"

\* The decoder returned two frames, both skipped: the process exited on the
\* empty store.
C7_Witness ==
    /\ pc = "done" /\ exit = "empty"
    /\ Len(gif.usable) = 2 /\ Len(frames) = 0

\* C8: whenever run_app has returned (Ok or Err) and the process has ended,
\* raw mode is disabled, the alternate screen left and the cursor shown; and
\* run_app's error is reported only after these unwind steps.
C8_Unwound ==
    /\ (pc = "done" /\ res # "none") =>
          (~raw_mode /\ ~alt_screen /\ cursor = "shown")
    /\ reported => (~raw_mode /\ ~alt_screen /\ cursor = "shown")

\* C9: the bit a sub-pixel sets is the bit of the dot its match arm names
\* (Unicode dot n is bit n-1 of the code point's offset from 0x2800): the
\* raised dots of the glyph are exactly the dots named for the lit pixels.
C9_BitsMatchNamedDots ==
    span # NoSpan =>
        \A i \in DOMAIN SubOrder :
            BitSet(span.glyph - 10240,
                   comment_dot(SubOrder[i].sub_col, SubOrder[i].sub_row) - 1) <=> Lit(i)

\* C10: the wait handed to event::poll is max(0, frame_delay - elapsed); an
\* iteration that reads an event other than the quit key goes on to the
\* advance check like one whose poll timed out; and while run_app keeps
\* running (no quit key read, no error) every frame of the store is rendered
\* again and again, whatever events arrive.
C10_NoStall ==
    /\ [][ /\ (pc = "draw" /\ pc' = "poll") =>
                 time_left' = (IF elapsed >= 96 THEN 0 ELSE 96 - elapsed)
           /\ (pc \in {"poll", "read"} /\ pc' \in RunPcs /\ pc' # pc) =>
                 pc' \in {"read", "advance"}
           /\ (pc = "read" /\ pc' \in RunPcs /\ pc' # pc) => pc' = "advance"
         ]_vars
    /\ (<>[](pc \in RunPcs)) =>
          \A i \in 1..MaxGifFrames :
              []<>(i <= Len(frames) => drawn = frames[i].id)

\* The second frame is on screen while the event queue is full of events
\* other than the quit key.
C10_Witness ==
    /\ pc = "read" /\ Len(events) = MaxQueue
    /\ frame_index = 1 /\ drawn = frames[2].id
    /\ q_ahead = -1

====
